---- MODULE Spec2Model ----
(***************************************************************************)
(* A model of the quotient filter of src/qf.c (lines 1-392) and of the     *)
(* reference-set harness of its randomized tester (src/qf.c, test.cc).     *)
(*                                                                         *)
(* A filter is a record with the fields of struct quotient_filter.  The    *)
(* table is kept as the C code keeps it: an array of 64-bit words, each    *)
(* word a set of bit positions (bit b is set iff b is in the set), into    *)
(* which get_elem/set_elem pack slots of r+3 bits.  Slot values, hashes    *)
(* and masks are naturals; within the bounds below they stay far under     *)
(* 2^31, so no uint64 arithmetic wraps except the shifts on table words,   *)
(* which truncate at bit 63 as in C.                                       *)
(*                                                                         *)
(* A C loop is a RECURSIVE operator with a fuel argument.  The fuel is     *)
(* chosen so that running out of it proves the C loop never exits (the     *)
(* loop has returned to a configuration it was in before); the operator    *)
(* then yields Diverges and the calling action records a hung call.        *)
(***************************************************************************)
EXTENDS Integers, Sequences, FiniteSets, TLC

(***************************************************************************)
(* Bounds of the model.                                                    *)
(***************************************************************************)
\* Filters are initialised with 1 <= q, 1 <= r and q + r <= MaxP.
MaxP == 3
\* A filter handed to qf_merge has had at most MaxFill entries inserted.
MaxFill == 2
\* Values an uninitialised uint64 field of a stack-allocated struct
\* qf_iterator may hold: 0..MaxJunk.
MaxJunk == 2

(***************************************************************************)
(* Program constants.                                                      *)
(***************************************************************************)
\* Width of one table word (uint64_t *qf_table).
WordBits == 64

\* The value a diverging loop yields.
Diverges == 0 - 1

(***************************************************************************)
(* Bitwise arithmetic on naturals (slot values, hashes, masks).            *)
(***************************************************************************)
RECURSIVE BitAnd(_, _)
BitAnd(x, y) ==
    IF x = 0 \/ y = 0 THEN 0
    ELSE (x % 2) * (y % 2) + 2 * BitAnd(x \div 2, y \div 2)

BitOr(x, y) == x + y - BitAnd(x, y)

\* x & ~y
BitClear(x, y) == x - BitAnd(x, y)

Shl(x, n) == x * (2 ^ n)

Shr(x, n) == x \div (2 ^ n)

\* #define LOW_MASK(n) ((1 << (n)) - 1); an int, exact for n <= 30.
LOW_MASK(n) == Shl(1, n) - 1

(***************************************************************************)
(* 64-bit table words as sets of bit positions.                            *)
(***************************************************************************)
WordPositions == 0 .. (WordBits - 1)

RECURSIVE BitsFrom(_, _)
\* The positions of the set bits of natural n, counted from position b.
BitsFrom(n, b) ==
    IF n = 0 THEN {}
    ELSE (IF n % 2 = 1 THEN {b} ELSE {}) \cup BitsFrom(n \div 2, b + 1)

\* The word holding natural n (n < 2^31).
U64(n) == BitsFrom(n, 0)

RECURSIVE ValW(_)
\* The natural a word holds (used on words whose set bits are below 31).
ValW(w) ==
    IF w = {} THEN 0
    ELSE LET b == CHOOSE x \in w : TRUE
         IN  (2 ^ b) + ValW(w \ {b})

ShlW(w, n) == {b + n : b \in w} \cap WordPositions

ShrW(w, n) == {b - n : b \in {c \in w : c >= n}}

AndW(v, w) == v \cap w

OrW(v, w) == v \cup w

NotW(w) == WordPositions \ w

(***************************************************************************)
(* qf_table_size and qf_init.                                              *)
(***************************************************************************)
qf_table_size(q, r) ==
    LET bits == Shl(1, q) * (r + 3)
        bytes == bits \div 8
    IN  IF bits % 8 # 0 THEN bytes + 1 ELSE bytes

\* Number of table words a slot index in 0..2^q can make get_elem read.
\* Index 2^q is one past the last slot: qfi_start leaves the iterator there
\* when the table has no cluster start.
TableWords(q, r) == (((Shl(1, q) + 1) * (r + 3) - 1) \div WordBits) + 1

\* calloc(bytes, 1): every allocated byte is zero.  The words reach past the
\* allocation (a word is 8 bytes, the allocation a whole number of bytes);
\* the table holds no bit there: that memory is not the filter's, and
\* set_elem writes back to it what it read.
Calloc(bytes, nwords) == [w \in 0 .. (nwords - 1) |-> {}]

\* The filter qf_init leaves behind when it returns true.
qf_init(q, r) ==
    [qf_qbits      |-> q,
     qf_rbits      |-> r,
     qf_elem_bits  |-> r + 3,
     qf_index_mask |-> LOW_MASK(q),
     qf_rmask      |-> LOW_MASK(r),
     qf_elem_mask  |-> LOW_MASK(r + 3),
     qf_entries    |-> 0,
     qf_max_size   |-> Shl(1, q),
     qf_table      |-> Calloc(qf_table_size(q, r), TableWords(q, r))]

\* Whether qf_init(q, r) gets past its parameter check.
qf_init_ok(q, r) == ~(q = 0 \/ r = 0 \/ q + r > 64)

(***************************************************************************)
(* Slot codec.                                                             *)
(***************************************************************************)
get_elem(qf, idx) ==
    LET bitpos    == qf.qf_elem_bits * idx
        tabpos    == bitpos \div WordBits
        slotpos   == bitpos % WordBits
        spillbits == (slotpos + qf.qf_elem_bits) - WordBits
        elt       == AndW(ShrW(qf.qf_table[tabpos], slotpos), U64(qf.qf_elem_mask))
    IN  IF spillbits > 0
        THEN LET x == AndW(qf.qf_table[tabpos + 1], U64(LOW_MASK(spillbits)))
             IN  ValW(OrW(elt, ShlW(x, qf.qf_elem_bits - spillbits)))
        ELSE ValW(elt)

set_elem(qf, idx, elt0) ==
    LET bitpos    == qf.qf_elem_bits * idx
        tabpos    == bitpos \div WordBits
        slotpos   == bitpos % WordBits
        spillbits == (slotpos + qf.qf_elem_bits) - WordBits
        elt       == BitAnd(elt0, qf.qf_elem_mask)
        w0        == OrW(AndW(qf.qf_table[tabpos],
                              NotW(ShlW(U64(qf.qf_elem_mask), slotpos))),
                         ShlW(U64(elt), slotpos))
        t0        == [qf.qf_table EXCEPT ![tabpos] = w0]
    IN  IF spillbits > 0
        THEN LET w1 == OrW(AndW(t0[tabpos + 1], NotW(U64(LOW_MASK(spillbits)))),
                           U64(Shr(elt, qf.qf_elem_bits - spillbits)))
             IN  [qf EXCEPT !.qf_table = [t0 EXCEPT ![tabpos + 1] = w1]]
        ELSE [qf EXCEPT !.qf_table = t0]

incr(qf, idx) == BitAnd(idx + 1, qf.qf_index_mask)

\* (idx - 1) & mask on uint64: 0 - 1 is 2^64 - 1, whose low bits are the mask.
decr(qf, idx) ==
    IF idx = 0 THEN qf.qf_index_mask ELSE BitAnd(idx - 1, qf.qf_index_mask)

(***************************************************************************)
(* Metadata bits.  The C predicates return the masked int; here they are   *)
(* its truth value.                                                        *)
(***************************************************************************)
is_occupied(elt) == BitAnd(elt, 1) # 0

set_occupied(elt) == BitOr(elt, 1)

clr_occupied(elt) == BitClear(elt, 1)

is_continuation(elt) == BitAnd(elt, 2) # 0

set_continuation(elt) == BitOr(elt, 2)

is_shifted(elt) == BitAnd(elt, 4) # 0

set_shifted(elt) == BitOr(elt, 4)

get_remainder(elt) == Shr(elt, 3)

is_empty(elt) == BitAnd(elt, 7) = 0

is_cluster_start(elt) ==
    is_occupied(elt) /\ ~is_continuation(elt) /\ ~is_shifted(elt)

is_run_start(elt) ==
    ~is_continuation(elt) /\ (is_occupied(elt) \/ is_shifted(elt))

hash_to_quotient(qf, hash) == BitAnd(Shr(hash, qf.qf_rbits), qf.qf_index_mask)

\* hash_to_remainder without the mask: the whole hash as the remainder.
hash_to_remainder_whole(qf, hash) == hash

hash_to_remainder(qf, hash) == BitAnd(hash, qf.qf_rmask)

(***************************************************************************)
(* find_run_index.                                                         *)
(***************************************************************************)
RECURSIVE walk_to_cluster_start(_, _, _)
\* while (is_shifted(get_elem(qf, b))) b = decr(qf, b);
\* Out of fuel: every slot of the table is shifted, the walk never ends.
walk_to_cluster_start(qf, b, fuel) ==
    IF ~is_shifted(get_elem(qf, b)) THEN b
    ELSE IF fuel = 0 THEN Diverges
    ELSE walk_to_cluster_start(qf, decr(qf, b), fuel - 1)

RECURSIVE next_run_start(_, _, _)
\* do { s = incr(qf, s); } while (is_continuation(get_elem(qf, s)));
\* Out of fuel: every slot is a continuation.
next_run_start(qf, s, fuel) ==
    LET s1 == incr(qf, s)
    IN  IF ~is_continuation(get_elem(qf, s1)) THEN s1
        ELSE IF fuel = 0 THEN Diverges
        ELSE next_run_start(qf, s1, fuel - 1)

RECURSIVE next_occupied(_, _, _)
\* do { b = incr(qf, b); } while (!is_occupied(get_elem(qf, b)));
\* Out of fuel: no slot is occupied.
next_occupied(qf, b, fuel) ==
    LET b1 == incr(qf, b)
    IN  IF is_occupied(get_elem(qf, b1)) THEN b1
        ELSE IF fuel = 0 THEN Diverges
        ELSE next_occupied(qf, b1, fuel - 1)

RECURSIVE walk_to_run(_, _, _, _, _)
\* while (b != fq) { advance s to the next run start, b to the next
\* occupied slot }.  b only ever rests on occupied slots and visits them in
\* cyclic order, so after 2^q rounds it has rested on every one of them:
\* out of fuel, b never equals fq and the loop never ends.
walk_to_run(qf, fq, b, s, fuel) ==
    IF b = fq THEN s
    ELSE IF fuel = 0 THEN Diverges
    ELSE LET s1 == next_run_start(qf, s, qf.qf_max_size)
             b1 == next_occupied(qf, b, qf.qf_max_size)
         IN  IF s1 = Diverges \/ b1 = Diverges THEN Diverges
             ELSE walk_to_run(qf, fq, b1, s1, fuel - 1)

\* The start index of the run for fq, or Diverges when the call never returns.
find_run_index(qf, fq) ==
    LET b == walk_to_cluster_start(qf, fq, qf.qf_max_size)
    IN  IF b = Diverges THEN Diverges
        ELSE walk_to_run(qf, fq, b, b, qf.qf_max_size)

(***************************************************************************)
(* insert_into and qf_insert.                                              *)
(***************************************************************************)
\* A local of the C code that is computed once and read several times is
\* written  Local({body : x \in {value}}):  x is bound to the value, where a
\* LET would leave every use of x to compute it again.
Local(S) == CHOOSE x \in S : TRUE

RECURSIVE insert_into_loop(_, _, _, _)
\* One round of the do-while of insert_into, with curr the element carried.
\* Out of fuel: the walk went all the way round without meeting an empty slot.
insert_into_loop(qf, s, curr0, fuel) ==
    LET prev0 == get_elem(qf, s)
        curr  == IF is_occupied(prev0) THEN set_occupied(curr0) ELSE curr0
        prev1 == IF is_occupied(prev0) THEN clr_occupied(prev0) ELSE prev0
        empty == is_empty(prev1)
        prev  == IF ~empty THEN set_shifted(prev1) ELSE prev1
        qf1   == set_elem(qf, s, curr)
    IN  IF empty THEN [hang |-> FALSE, qf |-> qf1]
        ELSE IF fuel = 0 THEN [hang |-> TRUE, qf |-> qf]
        ELSE Local({insert_into_loop(a[1], a[2], a[3], fuel - 1) :
                        a \in {<<qf1, incr(qf, s), prev>>}})

insert_into(qf, s, elt) == insert_into_loop(qf, s, elt, qf.qf_max_size + 1)

RECURSIVE scan_run(_, _, _, _)
\* The do-while of qf_insert that moves the cursor to the insert position:
\* "found" when the remainder is there (return true), else "at" with the
\* position.  Out of fuel: every slot is a continuation with a smaller
\* remainder.
scan_run(qf, fr, s, fuel) ==
    LET rem == get_remainder(get_elem(qf, s))
        s1  == incr(qf, s)
    IN  IF rem = fr THEN [kind |-> "found", s |-> s]
        ELSE IF rem > fr THEN [kind |-> "at", s |-> s]
        ELSE IF ~is_continuation(get_elem(qf, s1)) THEN [kind |-> "at", s |-> s1]
        ELSE IF fuel = 0 THEN [kind |-> "hang", s |-> s1]
        ELSE scan_run(qf, fr, s1, fuel - 1)

\* What a call returns: the filter it leaves, its return value, and whether
\* it returns at all.
Returned(qf, ret) == [hang |-> FALSE, ret |-> ret, qf |-> qf]

Hung(qf) == [hang |-> TRUE, ret |-> FALSE, qf |-> qf]

\* ++qf->qf_entries; return true;  (after insert_into)
count_entry(res) ==
    IF res.hang THEN Hung(res.qf)
    ELSE Returned([res.qf EXCEPT !.qf_entries = @ + 1], TRUE)

\* The capacity check of qf_insert with > written for >=.
over_capacity_gt(f) == f.qf_entries > f.qf_max_size

\* if (qf->qf_entries >= qf->qf_max_size) return false;
over_capacity(qf) == qf.qf_entries >= qf.qf_max_size

qf_insert(qf, hash) ==
    IF over_capacity(qf) THEN Returned(qf, FALSE)
    ELSE
    LET fq    == hash_to_quotient(qf, hash)
        fr    == hash_to_remainder(qf, hash)
        T_fq  == get_elem(qf, fq)
        start == find_run_index(qf, fq)
        entry == BitClear(Shl(fr, 3), 7)
    IN  IF start = Diverges THEN Hung(qf)
        ELSE IF ~is_occupied(T_fq)
        THEN IF start = fq
             THEN count_entry(insert_into(qf, start, set_occupied(entry)))
             ELSE count_entry(insert_into(set_elem(qf, fq, set_occupied(T_fq)),
                                          start, set_shifted(entry)))
        ELSE LET pos == scan_run(qf, fr, start, qf.qf_max_size)
                 s   == pos.s
             IN  IF pos.kind = "found" THEN Returned(qf, TRUE)
                 ELSE IF pos.kind = "hang" THEN Hung(qf)
                 ELSE IF s # start
                 THEN \* entry = set_continuation(set_shifted(entry)) is
                      \* computed and dropped: insert_into is given fr.
                      count_entry(insert_into(qf, s, fr))
                 ELSE LET old_head == set_continuation(set_shifted(get_elem(qf, s)))
                      IN  count_entry(insert_into(set_elem(qf, s, old_head), s, fr))

(***************************************************************************)
(* qf_may_contain, qf_remove, qf_clear.                                    *)
(***************************************************************************)
RECURSIVE scan_bucket(_, _, _, _)
\* The do-while of qf_may_contain over the sorted bucket.
scan_bucket(qf, fr, s, fuel) ==
    LET rem == get_remainder(get_elem(qf, s))
        s1  == incr(qf, s)
    IN  IF rem = fr THEN Returned(qf, TRUE)
        ELSE IF rem > fr THEN Returned(qf, FALSE)
        ELSE IF ~is_continuation(get_elem(qf, s1)) THEN Returned(qf, FALSE)
        ELSE IF fuel = 0 THEN Hung(qf)
        ELSE scan_bucket(qf, fr, s1, fuel - 1)

qf_may_contain(qf, hash) ==
    LET fq   == hash_to_quotient(qf, hash)
        fr   == hash_to_remainder(qf, hash)
        T_fq == get_elem(qf, fq)
    IN  IF ~is_occupied(T_fq) THEN Returned(qf, FALSE)
        ELSE LET s == find_run_index(qf, fq)
             IN  IF s = Diverges THEN Hung(qf)
                 ELSE scan_bucket(qf, fr, s, qf.qf_max_size)

\* void qf_remove(qf, hash) { (void) qf; (void) hash; }
qf_remove(qf, hash) == qf

\* qf_clear without the reset of the entry count.
qf_clear_table_only(qf) ==
    LET bytes == qf_table_size(qf.qf_qbits, qf.qf_rbits)
    IN  [qf EXCEPT !.qf_table = [w \in DOMAIN qf.qf_table |->
                       {b \in qf.qf_table[w] : w * WordBits + b >= 8 * bytes}]]

\* memset(qf->qf_table, 0, qf_table_size(q, r)).
qf_clear(qf) ==
    LET bytes == qf_table_size(qf.qf_qbits, qf.qf_rbits)
    IN  [qf EXCEPT !.qf_entries = 0,
                   !.qf_table = [w \in DOMAIN qf.qf_table |->
                       {b \in qf.qf_table[w] : w * WordBits + b >= 8 * bytes}]]

(***************************************************************************)
(* Iterator: qfi_start, qfi_done, qfi_next.                                *)
(***************************************************************************)
\* A struct qf_iterator declared on the stack and not initialised: each
\* field holds whatever was there (junk).
UninitIter(junk) ==
    [qfi_index         |-> junk,
     qfi_start_cluster |-> junk,
     qfi_quotient      |-> junk,
     qfi_visited       |-> junk]

RECURSIVE first_cluster_start(_, _)
\* for (start = 0; start < qf->qf_max_size; ++start)
\*     if (is_cluster_start(get_elem(qf, start))) break;
first_cluster_start(qf, start) ==
    IF ~(start < qf.qf_max_size) THEN start
    ELSE IF is_cluster_start(get_elem(qf, start)) THEN start
    ELSE first_cluster_start(qf, start + 1)

\* qfi_quotient is not assigned.
qfi_start(qf, i) ==
    IF qf.qf_entries = 0 THEN [i EXCEPT !.qfi_visited = qf.qf_entries]
    ELSE LET start == first_cluster_start(qf, 0)
         IN  [i EXCEPT !.qfi_visited = 0,
                       !.qfi_index = start,
                       !.qfi_start_cluster = start]

qfi_done(qf, i) == qf.qf_entries = i.qfi_visited

\* The table as get_elem reads it when the memory past the allocation is
\* filled with heap (0 or 1).  Only a read at slot index 2^q, where qfi_start
\* leaves the iterator when no slot is a cluster start, sees those bits.
WithHeap(qf, heap) ==
    LET bytes == qf_table_size(qf.qf_qbits, qf.qf_rbits)
    IN  [qf EXCEPT !.qf_table = [w \in DOMAIN qf.qf_table |->
            qf.qf_table[w] \cup
            {b \in WordPositions : heap = 1 /\ w * WordBits + b >= 8 * bytes}]]

\* qfi_next with the ++i->qfi_visited left out.
visit_not_counted(i) == i

\* ++i->qfi_visited;
visit(i) == [i EXCEPT !.qfi_visited = @ + 1]

RECURSIVE qfi_next_loop(_, _, _, _, _)
\* The while loop of qfi_next; scanned counts the slots read.  Out of fuel:
\* the 2^q slots are all empty and visited never reaches entries.
qfi_next_loop(qf, i, heap, scanned, fuel) ==
    LET elt      == get_elem(WithHeap(qf, heap), i.qfi_index)
        quotient == IF is_cluster_start(elt) THEN i.qfi_index
                    ELSE IF is_run_start(elt) THEN i.qfi_quotient + 1
                    ELSE i.qfi_quotient
        i1       == [i EXCEPT !.qfi_quotient = quotient,
                              !.qfi_index = incr(qf, i.qfi_index)]
    IN  IF ~is_empty(elt)
        THEN [kind    |-> "returned",
              i       |-> visit(i1),
              hash    |-> BitOr(Shl(quotient, qf.qf_rbits), get_remainder(elt)),
              scanned |-> scanned + 1]
        ELSE IF fuel = 0
        THEN [kind |-> "hung", i |-> i1, hash |-> 0, scanned |-> scanned + 1]
        ELSE Local({qfi_next_loop(qf, a[1], heap, a[2], fuel - 1) :
                        a \in {<<i1, scanned + 1>>}})

\* kind is "returned" (with the hash), "hung", or "aborted" (abort() is
\* reached when the call is made on an iterator that is done).
qfi_next(qf, i, heap) ==
    IF qfi_done(qf, i)
    THEN [kind |-> "aborted", i |-> i, hash |-> 0, scanned |-> 0]
    ELSE qfi_next_loop(qf, i, heap, 0, qf.qf_max_size)

RECURSIVE iterate_loop(_, _, _, _)
\* while (!qfi_done(qf, &qfi)) { hash = qfi_next(qf, &qfi); ... }
\* as subsetof and supersetof run it: out collects the hashes returned.
iterate_loop(qf, i, heap, out) ==
    IF qfi_done(qf, i) THEN [hang |-> FALSE, i |-> i, out |-> out]
    ELSE Local({IF n.kind = "hung"
                THEN [hang |-> TRUE, i |-> n.i, out |-> out]
                ELSE iterate_loop(qf, n.i, heap, Append(out, n.hash)) :
                    n \in {qfi_next(qf, i, heap)}})

\* struct qf_iterator qfi; qfi_start(qf, &qfi); while (...) ...
Iterate(qf, junk, heap) ==
    iterate_loop(qf, qfi_start(qf, UninitIter(junk)), heap, <<>>)

(***************************************************************************)
(* qf_merge.                                                               *)
(***************************************************************************)
RECURSIVE merge_loop(_, _, _, _)
\* while (!qfi_done(qf, &qfi)) qf_insert(qfout, qfi_next(qf, &qfi));
\* The value qf_insert returns is not looked at.
merge_loop(qfsrc, i, heap, qfout) ==
    IF qfi_done(qfsrc, i) THEN [hang |-> FALSE, i |-> i, qf |-> qfout]
    ELSE Local({Local({IF n.kind = "hung" \/ r.hang
                       THEN [hang |-> TRUE, i |-> n.i, qf |-> qfout]
                       ELSE merge_loop(qfsrc, n.i, heap, r.qf) :
                           r \in {qf_insert(qfout, n.hash)}}) :
                    n \in {qfi_next(qfsrc, i, heap)}})

\* The two loops of qf_merge, over qf1 and then over qf2 with the same
\* struct qf_iterator, into the initialised qfout.
merge_both(qf1, qf2, i1, out0, heap1, heap2) ==
    Local({IF l1.hang THEN Hung(l1.qf)
           ELSE Local({IF l2.hang THEN Hung(l2.qf) ELSE Returned(l2.qf, TRUE) :
                           l2 \in {merge_loop(qf2, qfi_start(qf2, l1.i),
                                              heap2, l1.qf)}}) :
               l1 \in {merge_loop(qf1, i1, heap1, out0)}})

\* qfout0 is what qfout held before the call, qfi0 the uninitialised
\* iterator on the stack, heap1 and heap2 what the memory past the tables
\* of qf1 and qf2 holds.  calloc is taken to succeed.
qf_merge(qf1, qf2, qfout0, qfi0, heap1, heap2) ==
    LET p1 == qf1.qf_qbits + qf1.qf_rbits
        p2 == qf2.qf_qbits + qf2.qf_rbits
        q  == IF qf1.qf_qbits > qf2.qf_qbits
              THEN qf1.qf_qbits + 1 ELSE qf2.qf_qbits + 1
        r  == p1 - q
    IN  IF p1 # p2 THEN Returned(qfout0, FALSE)
        ELSE IF ~qf_init_ok(q, r) THEN Returned(qfout0, FALSE)
        ELSE Local({merge_both(qf1, qf2, a[1], a[2], heap1, heap2) :
                        a \in {<<qfi_start(qf1, qfi0), qf_init(q, r)>>}})

(***************************************************************************)
(* State.                                                                  *)
(***************************************************************************)
VARIABLES
    qf,       \* the filter (struct quotient_filter); qf1 of a merge
    keys,     \* the tester's reference set (set<uint64_t> keys)
    last,     \* the last call made: [op, hash, ret]
    status,   \* "ok", or "hung" once a call has entered a loop it never leaves
    phase,    \* what the caller is doing: "fill", "iterate" or "merged"
    qfi,      \* the iterator (struct qf_iterator)
    yielded,  \* the hashes qfi_next has returned since qfi_start
    scanned,  \* the number of slots the last qfi_next call read
    qf2,      \* the second filter of a merge
    qfout,    \* the output filter of a merge
    table_ptr \* what qf->qf_table holds: "null", "wild" (never assigned),
              \* "live" (a block calloc returned) or "freed"

vars == <<qf, keys, last, status, phase, qfi, yielded, scanned, qf2, qfout,
          table_ptr>>

iter_vars == <<qfi, yielded, scanned>>

merge_vars == <<qf2, qfout>>

\* The (q, r) pairs filters are initialised with.
Params == {qr \in (1 .. MaxP) \X (1 .. MaxP) :
              qr[1] + qr[2] <= MaxP /\ qf_init_ok(qr[1], qr[2])}

\* What the memory after an allocation is filled with.
HeapFill == {0, 1}

\* What an uninitialised field holds.
Junk == 0 .. MaxJunk

\* The hashes of q + r bits.
Hashes(f) == 0 .. LOW_MASK(f.qf_qbits + f.qf_rbits)

NoCall == [op |-> "init", hash |-> 0, ret |-> TRUE]

\* A struct quotient_filter no qf_init has been called on.
NoFilter ==
    [qf_qbits |-> 0, qf_rbits |-> 0, qf_elem_bits |-> 0, qf_index_mask |-> 0,
     qf_rmask |-> 0, qf_elem_mask |-> 0, qf_entries |-> 0, qf_max_size |-> 0,
     qf_table |-> <<>>]

Init ==
    /\ \E qr \in Params : qf = qf_init(qr[1], qr[2])
    /\ keys = {}
    /\ last = NoCall
    /\ status = "ok"
    /\ phase = "fill"
    /\ qfi = UninitIter(0)
    /\ yielded = <<>>
    /\ scanned = 0
    /\ qf2 = NoFilter
    /\ qfout = NoFilter
    /\ table_ptr = "live"

(***************************************************************************)
(* The calls of the tester on one filter: ht_put, ht_del, qf_clear.        *)
(***************************************************************************)
\* qf_insert(qf, h); the tester adds h to keys when the call returns true.
QfInsert(h) ==
    /\ status = "ok" /\ phase = "fill"
    /\ LET res == qf_insert(qf, h)
       IN  /\ qf' = res.qf
           /\ status' = IF res.hang THEN "hung" ELSE "ok"
           /\ keys' = IF ~res.hang /\ res.ret THEN keys \cup {h} ELSE keys
           /\ last' = [op |-> "insert", hash |-> h, ret |-> res.ret]
    /\ UNCHANGED <<table_ptr, phase, iter_vars, merge_vars>>

\* qf_remove(qf, h); the tester erases h from keys.  The definition returns
\* void and sets no value, while the later header declares bool and the
\* tester asserts the value: what such a caller reads is indeterminate.
QfRemove(h) ==
    /\ status = "ok" /\ phase = "fill"
    /\ qf' = qf_remove(qf, h)
    /\ keys' = keys \ {h}
    /\ \E ret \in BOOLEAN : last' = [op |-> "remove", hash |-> h, ret |-> ret]
    /\ UNCHANGED <<table_ptr, status, phase, iter_vars, merge_vars>>

\* qf_clear(qf); keys.clear().
QfClear ==
    /\ status = "ok" /\ phase = "fill"
    /\ qf' = qf_clear(qf)
    /\ keys' = {}
    /\ last' = [op |-> "clear", hash |-> 0, ret |-> TRUE]
    /\ UNCHANGED <<table_ptr, status, phase, iter_vars, merge_vars>>

Next ==
    \/ \E h \in Hashes(qf) : QfInsert(h)
    \/ \E h \in Hashes(qf) : QfRemove(h)
    \/ QfClear

Spec == Init /\ [][Next]_vars

(***************************************************************************)
(* Claims on one filter under insert, remove and clear (Spec).             *)
(***************************************************************************)
\* The call qf_may_contain(qf, h) returns, and returns true.
MayContain(f, h) ==
    LET res == qf_may_contain(f, h)
    IN  ~res.hang /\ res.ret

\* C1: no false negatives.  After any sequence of qf_insert and qf_remove
\* calls, qf_may_contain(h) returns true for every hash h of q+r bits whose
\* qf_insert returned true and that has not been removed since (the hashes of
\* the reference set keys).
C1_NoFalseNegatives ==
    \A h \in keys : MayContain(qf, h)

\* C2: set equivalence.  With every hash of q+r bits, after any sequence of
\* qf_insert and qf_remove calls, qf_may_contain(h) equals membership of h in
\* the reference set that adds h on a successful insert and deletes h on
\* remove, for every h of q+r bits.
C2_SetEquivalence ==
    \A h \in Hashes(qf) : MayContain(qf, h) <=> h \in keys

\* C3: for a stored hash h (in the reference set, and reported by
\* qf_may_contain), qf_remove(h) makes the qf_may_contain(h) that follows
\* return false.
C3_RemoveThenAbsent ==
    [][\A h \in Hashes(qf) :
          (h \in keys /\ MayContain(qf, h) /\ QfRemove(h))
              => ~MayContain(qf', h)]_vars

\* C4: a qf_insert call returns false exactly when entries is 2^q at the
\* time of the call (then it does return), and a call that returns false
\* leaves entries and every slot of the table unchanged.
C4_InsertFalseIffFull ==
    [][(last'.op = "insert" /\ QfInsert(last'.hash)) =>
          /\ (qf.qf_entries = 2 ^ qf.qf_qbits)
                 => (status' = "ok" /\ last'.ret = FALSE)
          /\ (status' = "ok" /\ last'.ret = FALSE)
                 => (qf.qf_entries = 2 ^ qf.qf_qbits /\ qf' = qf)]_vars

\* C4 witness: a qf_insert call on a full filter has returned false.
C4_Witness ==
    /\ last.op = "insert" /\ last.ret = FALSE /\ status = "ok"
    /\ qf.qf_entries = 2 ^ qf.qf_qbits
    /\ qf.qf_qbits = 2

\* C5: duplicate insertion is idempotent.  In a non-full state, qf_insert(h)
\* of a hash already inserted (and not removed) returns true and leaves
\* entries and every slot unchanged.
C5_DuplicateInsertIdempotent ==
    [][\A h \in Hashes(qf) :
          (h \in keys /\ qf.qf_entries < qf.qf_max_size /\ QfInsert(h))
              => (status' = "ok" /\ last'.ret = TRUE /\ qf' = qf)]_vars

\* C8: every qf_insert call terminates, in every state reachable from a
\* freshly initialised filter: no call is left hanging in find_run_index or
\* insert_into.
C8_InsertTerminates ==
    ~(last.op = "insert" /\ status = "hung")

(***************************************************************************)
(* Iteration over a filter that is no longer modified: the loop of         *)
(* qf_test, subsetof and supersetof, one call at a time.                   *)
(***************************************************************************)
\* struct qf_iterator qfi; qfi_start(qf, &qfi);
QfiStart ==
    /\ status = "ok" /\ phase = "fill"
    /\ \E junk \in Junk : qfi' = qfi_start(qf, UninitIter(junk))
    /\ phase' = "iterate"
    /\ yielded' = <<>>
    /\ scanned' = 0
    /\ last' = [op |-> "qfi_start", hash |-> 0, ret |-> TRUE]
    /\ UNCHANGED <<table_ptr, qf, keys, status, merge_vars>>

\* hash = qfi_next(qf, &qfi), called while !qfi_done(qf, &qfi).
QfiNext ==
    /\ status = "ok" /\ phase = "iterate"
    /\ ~qfi_done(qf, qfi)
    /\ \E heap \in HeapFill :
         LET n == qfi_next(qf, qfi, heap)
         IN  /\ qfi' = n.i
             /\ scanned' = n.scanned
             /\ status' = IF n.kind = "returned" THEN "ok" ELSE "hung"
             /\ yielded' = IF n.kind = "returned"
                           THEN Append(yielded, n.hash) ELSE yielded
             /\ last' = [op |-> "qfi_next", hash |-> n.hash,
                         ret |-> n.kind = "returned"]
    /\ UNCHANGED <<table_ptr, qf, keys, phase, merge_vars>>

NextIter ==
    \/ \E h \in Hashes(qf) : QfInsert(h)
    \/ QfiStart
    \/ QfiNext

SpecIter == Init /\ [][NextIter]_vars

(***************************************************************************)
(* Claims on iteration (SpecIter).                                         *)
(***************************************************************************)
\* The set of the elements of a sequence.
Range(seq) == {seq[k] : k \in 1..Len(seq)}

\* C6: iterator completeness.  Iterating with qfi_start, qfi_done and qfi_next
\* yields, once qfi_done is true, each inserted hash (h mod 2^(q+r), which is
\* h for the q+r-bit hashes inserted here) exactly once, in some order, and
\* the loop gets there.
C6_IteratorComplete ==
    phase = "iterate" =>
        /\ status = "ok"
        /\ qfi_done(qf, qfi) =>
              (Range(yielded) = keys /\ Len(yielded) = Cardinality(keys))

\* C7: the iterator is finite.  With n = entries, after qfi_start, qfi_done is
\* false for exactly the first n calls of qfi_next and true afterwards (true
\* at once when n = 0), and each qfi_next call returns after scanning at most
\* 2^q slots: none loops forever.
C7_IteratorFinite ==
    phase = "iterate" =>
        /\ status = "ok"
        /\ qfi.qfi_visited = Len(yielded)
        /\ Len(yielded) <= qf.qf_entries
        /\ qfi_done(qf, qfi) <=> (Len(yielded) = qf.qf_entries)
        /\ scanned <= 2 ^ qf.qf_qbits

\* C7 witness: an iteration over three entries is done after three qfi_next
\* calls, the last of which scanned over empty slots before it returned.
C7_Witness ==
    /\ phase = "iterate" /\ status = "ok"
    /\ qf.qf_entries = 3 /\ Len(yielded) = 3
    /\ qfi_done(qf, qfi)
    /\ scanned > 1

(***************************************************************************)
(* Merging two filters, as main does: qf_init both, random_fill both,      *)
(* qf_merge into a third.                                                  *)
(***************************************************************************)
InitMerge ==
    /\ \E qr1 \in Params, qr2 \in Params :
         /\ qf = qf_init(qr1[1], qr1[2])
         /\ qf2 = qf_init(qr2[1], qr2[2])
    /\ keys = {}
    /\ last = NoCall
    /\ status = "ok"
    /\ phase = "fill"
    /\ qfi = UninitIter(0)
    /\ yielded = <<>>
    /\ scanned = 0
    /\ qfout = NoFilter
    /\ table_ptr = "live"

\* ht_put on qf1: qf_insert(qf1, h).
Fill1(h) ==
    /\ status = "ok" /\ phase = "fill"
    /\ qf.qf_entries < MaxFill
    /\ LET res == qf_insert(qf, h)
       IN  /\ qf' = res.qf
           /\ status' = IF res.hang THEN "hung" ELSE "ok"
    /\ UNCHANGED <<table_ptr, keys, last, phase, iter_vars, merge_vars>>

\* ht_put on qf2: qf_insert(qf2, h).
Fill2(h) ==
    /\ status = "ok" /\ phase = "fill"
    /\ qf2.qf_entries < MaxFill
    /\ LET res == qf_insert(qf2, h)
       IN  /\ qf2' = res.qf
           /\ status' = IF res.hang THEN "hung" ELSE "ok"
    /\ UNCHANGED <<table_ptr, qf, keys, last, phase, iter_vars, qfout>>

\* qf_merge(&qf1, &qf2, &qf).
QfMerge ==
    /\ status = "ok" /\ phase = "fill"
    /\ \E junk \in Junk, heap1 \in HeapFill, heap2 \in HeapFill :
         LET res == qf_merge(qf, qf2, qfout, UninitIter(junk), heap1, heap2)
         IN  /\ qfout' = res.qf
             /\ status' = IF res.hang THEN "hung" ELSE "ok"
             /\ last' = [op |-> "merge", hash |-> 0, ret |-> res.ret]
    /\ phase' = "merged"
    /\ UNCHANGED <<table_ptr, qf, keys, iter_vars, qf2>>

NextMerge ==
    \/ \E h \in Hashes(qf) : Fill1(h)
    \/ \E h \in Hashes(qf2) : Fill2(h)
    \/ QfMerge

SpecMerge == InitMerge /\ [][NextMerge]_vars

(***************************************************************************)
(* Claims on qf_merge (SpecMerge).                                         *)
(***************************************************************************)
\* qf_merge(&qf1, &qf2, &qf) has returned true.
MergeReturnedTrue ==
    phase = "merged" /\ status = "ok" /\ last.op = "merge" /\ last.ret = TRUE

\* The hashes an iteration over f produces, as subsetof and supersetof run it,
\* over every start of the iterator's fields and of the memory past the table.
Iterated(f) ==
    UNION {Range(Iterate(f, junk, heap).out) : junk \in Junk, heap \in HeapFill}

\* C9: merge is complete.  After qf_merge(a, b, out) returns true,
\* qf_may_contain(out, f) is true for every fingerprint f produced by
\* iterating a and for every fingerprint f produced by iterating b.
C9_MergeComplete ==
    MergeReturnedTrue =>
        \A f \in Iterated(qf) \cup Iterated(qf2) : MayContain(qfout, f)

\* C10: merge is sound.  After qf_merge(a, b, out) returns true, every
\* fingerprint f produced by iterating out satisfies qf_may_contain(a, f) or
\* qf_may_contain(b, f).
C10_MergeSound ==
    MergeReturnedTrue =>
        \A f \in Iterated(qfout) : MayContain(qf, f) \/ MayContain(qf2, f)

\* The larger of two naturals.
Max(a, b) == IF a > b THEN a ELSE b

\* C11: qf_merge fails only on allocation failure.  For any two initialised
\* input filters, whatever their (q1, r1) and (q2, r2), qf_merge returns true
\* when the allocation of the output table succeeds (as it does here).
C11_MergeFailsOnlyOnAlloc ==
    phase = "merged" => (status = "ok" /\ last.ret = TRUE)

\* C12: qf_merge returns false if q1+r1 # q2+r2, and (allocation succeeding)
\* returns true for every pair of initialised filters with q1, r1, q2, r2 >= 1
\* and q1+r1 = q2+r2.
C12_MergeTrueIffSameWidth ==
    phase = "merged" =>
        IF qf.qf_qbits + qf.qf_rbits # qf2.qf_qbits + qf2.qf_rbits
        THEN status = "ok" /\ last.ret = FALSE
        ELSE status = "ok" /\ last.ret = TRUE

\* C13: qf_merge initialises the output filter with quotient width
\* q_out = 1 + max(q_a, q_b) and remainder width r_out = max(r_a, r_b).
C13_MergeOutputWidths ==
    MergeReturnedTrue =>
        /\ qfout.qf_qbits = 1 + Max(qf.qf_qbits, qf2.qf_qbits)
        /\ qfout.qf_rbits = Max(qf.qf_rbits, qf2.qf_rbits)

(***************************************************************************)
(* Hashes wider than q + r bits.  A hash is a uint64_t; the model keeps    *)
(* MaxHigh bits of it above the q + r bits of the fingerprint.             *)
(***************************************************************************)
MaxHigh == 1

\* The hashes of q + r + MaxHigh bits.
WideHashes(f) == 0 .. LOW_MASK(f.qf_qbits + f.qf_rbits + MaxHigh)

\* h with everything above the low q + r bits dropped.
LowBits(f, h) == h % (2 ^ (f.qf_qbits + f.qf_rbits))

\* Whether h has a bit set at position q + r or above.
HasHighBits(f, h) == h # LowBits(f, h)

\* The filters whose wide hashes fit in MaxP bits.
InitWide == Init /\ qf.qf_qbits + qf.qf_rbits + MaxHigh <= MaxP

NextWide ==
    \/ \E h \in WideHashes(qf) : QfInsert(h)
    \/ \E h \in WideHashes(qf) : QfRemove(h)

SpecWide == InitWide /\ [][NextWide]_vars

\* C14: a qf_remove(h) of a hash with a bit set at position q + r or above
\* returns false and leaves entries and every slot unchanged, whatever its
\* low q + r bits are.
C14_RemoveRejectsWideHash ==
    [][(last'.op = "remove" /\ QfRemove(last'.hash)
           /\ HasHighBits(qf, last'.hash))
          => (last'.ret = FALSE /\ qf' = qf)]_vars

\* C15: only the low q + r bits of a hash matter.  In every reachable state
\* and for every hash h, qf_insert(h) and qf_insert(h mod 2^(q+r)) applied
\* to that state give the same return value, entries and table, and
\* qf_may_contain(h) returns what qf_may_contain(h mod 2^(q+r)) returns.
C15_OnlyLowBitsMatter ==
    status = "ok" =>
        \A h \in WideHashes(qf) :
            /\ qf_insert(qf, h) = qf_insert(qf, LowBits(qf, h))
            /\ qf_may_contain(qf, h) = qf_may_contain(qf, LowBits(qf, h))

\* C15 witness: a filter of four slots holding one entry, where one hash
\* with a bit above q + r is reported as stored and the qf_insert of another
\* one returns true and adds an entry.
C15_Witness ==
    /\ status = "ok" /\ qf.qf_qbits = 2 /\ qf.qf_entries = 1
    /\ \E h \in WideHashes(qf) : HasHighBits(qf, h) /\ MayContain(qf, h)
    /\ \E h \in WideHashes(qf) :
           /\ HasHighBits(qf, h) /\ ~MayContain(qf, h)
           /\ qf_insert(qf, h).ret /\ ~qf_insert(qf, h).hang
           /\ qf_insert(qf, h).qf.qf_entries = 2

(***************************************************************************)
(* The life of one struct quotient_filter: declared, qf_init, the calls of *)
(* the tester, qf_destroy.                                                 *)
(***************************************************************************)
\* The largest q + r a qf_init of this specification succeeds with.
MaxPLife == 2

\* The arguments of qf_init: 0, the small widths, and one too wide.
InitArgs == (0 .. MaxPLife) \cup {WordBits}

\* struct quotient_filter qf; the fields hold whatever the stack held.  No
\* call reads a scalar field before qf_init has written it.
InitLife ==
    /\ qf = NoFilter
    /\ table_ptr \in {"null", "wild"}
    /\ keys = {}
    /\ last = NoCall
    /\ status = "ok"
    /\ phase = "declared"
    /\ qfi = UninitIter(0)
    /\ yielded = <<>>
    /\ scanned = 0
    /\ qf2 = NoFilter
    /\ qfout = NoFilter

\* qf_init(&qf, q, r); enomem: calloc returns NULL.
QfInit(q, r, enomem) ==
    /\ status = "ok" /\ phase = "declared"
    /\ qf_init_ok(q, r) => q + r <= MaxPLife
    /\ IF ~qf_init_ok(q, r)
       THEN /\ last' = [op |-> "init", hash |-> 0, ret |-> FALSE]
            /\ UNCHANGED <<qf, table_ptr, phase>>
       ELSE IF enomem
       THEN /\ qf' = [qf_init(q, r) EXCEPT !.qf_table = <<>>]
            /\ table_ptr' = "null"
            /\ last' = [op |-> "init", hash |-> 0, ret |-> FALSE]
            /\ UNCHANGED phase
       ELSE /\ qf' = qf_init(q, r)
            /\ table_ptr' = "live"
            /\ last' = [op |-> "init", hash |-> 0, ret |-> TRUE]
            /\ phase' = "fill"
    /\ keys' = {}
    /\ UNCHANGED <<status, iter_vars, merge_vars>>

\* qf_destroy(&qf): free(qf->qf_table).  free of a null pointer does
\* nothing; free of a pointer that calloc did not return, or of a block
\* already freed, is undefined: the call returns or the program is killed.
QfDestroy ==
    /\ status = "ok" /\ phase \in {"declared", "fill"}
    /\ CASE table_ptr = "null" -> UNCHANGED <<table_ptr, status>>
         [] table_ptr = "live" -> table_ptr' = "freed" /\ UNCHANGED status
         [] OTHER -> /\ status' \in {"ok", "crashed"}
                     /\ UNCHANGED table_ptr
    /\ phase' = "declared"
    /\ last' = [op |-> "destroy", hash |-> 0, ret |-> TRUE]
    /\ UNCHANGED <<qf, keys, iter_vars, merge_vars>>

NextLife ==
    \/ \E q \in InitArgs, r \in InitArgs, enomem \in BOOLEAN :
          QfInit(q, r, enomem)
    \/ QfDestroy
    \/ Next

SpecLife == InitLife /\ [][NextLife]_vars

\* C16: whenever qf_init has returned false, for q == 0, r == 0, q + r > 64
\* or a failed allocation, the table field of the filter is null, and the
\* qf_destroy that follows is safe.
C16_FailedInitLeavesNull ==
    [][/\ (last'.op = "init" /\ last'.ret = FALSE) => table_ptr' = "null"
       /\ (last.op = "init" /\ last.ret = FALSE /\ QfDestroy)
              => status' = "ok"]_vars

\* Every slot of the table reads as 0 (the loop of qf_consistent for a
\* filter without entries).
AllSlotsZero(f) == \A idx \in 0 .. (f.qf_max_size - 1) : get_elem(f, idx) = 0

\* C17: after a successful qf_init, and after qf_clear in any reachable
\* state, entries is 0, each of the 2^q slots reads as 0 and qf_may_contain
\* returns false for every hash; qf_clear leaves q, r, the masks, the
\* capacity and the table buffer itself as they were.
C17_InitAndClearEmpty ==
    /\ [](last.op \in {"init", "clear"} =>
             /\ qf.qf_entries = 0
             /\ AllSlotsZero(qf)
             /\ \A h \in WideHashes(qf) :
                    qf_may_contain(qf, h) = Returned(qf, FALSE))
    /\ [][QfClear =>
             /\ qf'.qf_qbits = qf.qf_qbits /\ qf'.qf_rbits = qf.qf_rbits
             /\ qf'.qf_elem_bits = qf.qf_elem_bits
             /\ qf'.qf_index_mask = qf.qf_index_mask
             /\ qf'.qf_rmask = qf.qf_rmask
             /\ qf'.qf_elem_mask = qf.qf_elem_mask
             /\ qf'.qf_max_size = qf.qf_max_size
             /\ DOMAIN qf'.qf_table = DOMAIN qf.qf_table
             /\ table_ptr' = table_ptr]_vars

\* C17 witness: qf_clear has returned on a filter of four slots.
C17_Witness ==
    /\ last.op = "clear" /\ status = "ok"
    /\ qf.qf_qbits = 2 /\ qf.qf_entries = 0 /\ AllSlotsZero(qf)

(***************************************************************************)
(* The structure of the table, as qf_consistent of the tester checks it.   *)
(***************************************************************************)
\* The slot indices of f.
Slots(f) == 0 .. (f.qf_max_size - 1)

\* The slots of f that are not empty (visited, in qf_consistent).
NonEmptySlots(f) == {idx \in Slots(f) : ~is_empty(get_elem(f, idx))}

\* C18: in every state reachable by qf_insert, qf_remove and qf_clear,
\* entries is the number of slots whose three flag bits are not all zero,
\* and entries is at most 2^q.
C18_EntriesCountSlots ==
    status = "ok" =>
        /\ qf.qf_entries = Cardinality(NonEmptySlots(qf))
        /\ qf.qf_entries <= 2 ^ qf.qf_qbits

\* C19: in every state reachable by qf_insert, qf_remove and qf_clear, every
\* slot with is_continuation set has is_shifted set too, and the slot
\* cyclically before it is not empty.
C19_ContinuationShifted ==
    status = "ok" =>
        \A idx \in Slots(qf) :
            is_continuation(get_elem(qf, idx)) =>
                /\ is_shifted(get_elem(qf, idx))
                /\ ~is_empty(get_elem(qf, decr(qf, idx)))

\* C20: in every state reachable by qf_insert, qf_remove and qf_clear, the
\* remainders within a run are strictly increasing: every slot with
\* is_continuation set holds a remainder greater than the remainder of the
\* slot cyclically before it.
C20_RunRemaindersIncrease ==
    status = "ok" =>
        \A idx \in Slots(qf) :
            is_continuation(get_elem(qf, idx)) =>
                get_remainder(get_elem(qf, idx))
                    > get_remainder(get_elem(qf, decr(qf, idx)))

\* The slots of f whose is_occupied bit is set.
OccupiedSlots(f) == {idx \in Slots(f) : is_occupied(get_elem(f, idx))}

\* The slots of f that start a run.
RunStartSlots(f) == {idx \in Slots(f) : is_run_start(get_elem(f, idx))}

\* C21: in every state reachable by qf_insert, qf_remove and qf_clear, the
\* is_occupied bit of slot i is set if and only if some stored fingerprint
\* (inserted and not removed since) has quotient i, for every slot i.
C21_OccupiedIffStoredQuotient ==
    status = "ok" =>
        \A idx \in Slots(qf) :
            idx \in OccupiedSlots(qf)
                <=> (\E h \in keys : hash_to_quotient(qf, h) = idx)

\* C22: in every state reachable by qf_insert, qf_remove and qf_clear, there
\* are as many run-start slots as slots whose is_occupied bit is set.
C22_RunStartsMatchOccupied ==
    status = "ok" =>
        Cardinality(RunStartSlots(qf)) = Cardinality(OccupiedSlots(qf))

(***************************************************************************)
(* A filter whose remainders are wide enough for a remainder to have its   *)
(* low three bits clear and a higher bit set.                              *)
(***************************************************************************)
TallR == 4

\* The state after qf_init(&qf, 1, TallR).
InitTall ==
    /\ qf = qf_init(1, TallR)
    /\ keys = {}
    /\ last = NoCall
    /\ status = "ok"
    /\ phase = "fill"
    /\ qfi = UninitIter(0)
    /\ yielded = <<>>
    /\ scanned = 0
    /\ qf2 = NoFilter
    /\ qfout = NoFilter
    /\ table_ptr = "live"

\* The hashes of q + r bits whose remainder has none of bits 0 and 1 set:
\* remainders 0, 4, 8 and 12 for TallR = 4.
TallHashes(f) ==
    {h \in Hashes(f) : BitAnd(hash_to_remainder(f, h), 3) = 0}

NextTall ==
    \/ \E h \in TallHashes(qf) : QfInsert(h)
    \/ \E h \in TallHashes(qf) : QfRemove(h)
    \/ QfClear

SpecTall == InitTall /\ [][NextTall]_vars

\* Iteration over the filter of InitTall.
NextTallIter ==
    \/ \E h \in TallHashes(qf) : QfInsert(h)
    \/ QfiStart
    \/ QfiNext

SpecTallIter == InitTall /\ [][NextTallIter]_vars

\* C23: in every state reachable by qf_insert, qf_remove and qf_clear, every
\* empty slot (its three flag bits zero) has all its remainder bits zero, and
\* when entries is 0 every slot reads as 0.
C23_EmptySlotsClean ==
    status = "ok" =>
        /\ \A idx \in Slots(qf) :
               is_empty(get_elem(qf, idx))
                   => get_remainder(get_elem(qf, idx)) = 0
        /\ qf.qf_entries = 0 => AllSlotsZero(qf)

\* C24: a qf_insert(h) that returns true changes no is_occupied bit other
\* than that of slot fq, the quotient of h: the bit of every other slot is
\* after the call what it was before, and the bit of slot fq is set, however
\* many entries the call shifts.
C24_InsertOccupiedFrame ==
    [][(last'.op = "insert" /\ QfInsert(last'.hash)
           /\ status' = "ok" /\ last'.ret = TRUE)
          => /\ hash_to_quotient(qf, last'.hash) \in OccupiedSlots(qf')
             /\ \A idx \in Slots(qf) \ {hash_to_quotient(qf, last'.hash)} :
                    idx \in OccupiedSlots(qf') <=> idx \in OccupiedSlots(qf)]_vars

\* C25: in a qfi_next call that returns, on an iterator that qfi_start has
\* placed on a cluster start: when the slot just read is a cluster start the quotient of
\* the iterator becomes the index of that slot; when it is a run start and
\* not a cluster start the quotient becomes the next cyclic index whose
\* is_occupied bit is set; the value returned is (quotient << r) | remainder
\* and is less than 2^(q+r).
C25_IteratorQuotient ==
    [][(QfiNext /\ status' = "ok" /\ qfi.qfi_index \in Slots(qf)
           /\ qfi.qfi_start_cluster \in Slots(qf)) =>
          LET read == IF scanned' = 1 THEN qfi.qfi_index
                      ELSE decr(qf, qfi'.qfi_index)
              elt  == get_elem(qf, read)
              size == qf.qf_max_size
              dist == {k \in 1 .. size :
                          is_occupied(get_elem(qf, (qfi.qfi_quotient + k) % size))}
          IN  /\ is_cluster_start(elt) => qfi'.qfi_quotient = read
              /\ (is_run_start(elt) /\ ~is_cluster_start(elt)) =>
                     \E k \in dist :
                        /\ \A j \in dist : k <= j
                        /\ qfi'.qfi_quotient = (qfi.qfi_quotient + k) % size
              /\ last'.hash = BitOr(Shl(qfi'.qfi_quotient, qf.qf_rbits),
                                    get_remainder(elt))
              /\ last'.hash < 2 ^ (qf.qf_qbits + qf.qf_rbits)]_vars

\* C26: inserting k distinct remainders that share one quotient fq into an
\* empty filter (k <= 2^q) leaves exactly the slots fq, fq+1, ..., fq+k-1
\* (cyclic) non-empty, holding those remainders in ascending order, with
\* is_occupied set only on slot fq and with is_continuation and is_shifted
\* set on every one of those slots except slot fq.  The filter holds
\* exactly the hashes of keys when entries is their number.
C26_SingleRunLayout ==
    (/\ status = "ok" /\ keys # {}
     /\ qf.qf_entries = Cardinality(keys)
     /\ \A a \in keys, b \in keys :
            hash_to_quotient(qf, a) = hash_to_quotient(qf, b))
    => \A h \in keys :
          LET fq   == hash_to_quotient(qf, h)
              rank == Cardinality({a \in keys : a < h})
              elt  == get_elem(qf, (fq + rank) % qf.qf_max_size)
          IN  /\ get_remainder(elt) = hash_to_remainder(qf, h)
              /\ is_occupied(elt) <=> rank = 0
              /\ is_continuation(elt) <=> rank # 0
              /\ is_shifted(elt) <=> rank # 0
              /\ Cardinality(NonEmptySlots(qf)) = Cardinality(keys)

(***************************************************************************)
(* The slot codec on 64-bit words, for elements wider than 30 bits.        *)
(* LOW_MASK works on int: for n >= 32 the shift 1 << n is undefined.       *)
(***************************************************************************)
\* What a build makes of 1 << n for n >= 32: the count is taken modulo 32,
\* or the result is 0.
ShiftUB == {"mod32", "zero"}

\* (1 << n) - 1 as an int, converted to uint64_t (sign-extended).  n = 31
\* gives INT_MIN - 1, which the builds wrap to INT_MAX.
LowMaskWord(n, ub) ==
    IF n < 32 THEN 0 .. (n - 1)
    ELSE IF ub = "mod32" THEN 0 .. ((n % 32) - 1)
    ELSE WordPositions

\* The fields qf_init(q, r) sets that get_elem and set_elem read.
qf_init_codec(q, r, ub) ==
    [qf_qbits     |-> q,
     qf_rbits     |-> r,
     qf_elem_bits |-> r + 3,
     qf_elem_mask |-> LowMaskWord(r + 3, ub),
     qf_entries   |-> 0,
     qf_max_size  |-> Shl(1, q),
     qf_table     |-> Calloc(qf_table_size(q, r), TableWords(q, r))]

\* get_elem, the element as a word.
get_elem_word(f, idx, ub) ==
    LET bitpos    == f.qf_elem_bits * idx
        tabpos    == bitpos \div WordBits
        slotpos   == bitpos % WordBits
        spillbits == (slotpos + f.qf_elem_bits) - WordBits
        elt       == AndW(ShrW(f.qf_table[tabpos], slotpos), f.qf_elem_mask)
    IN  IF spillbits > 0
        THEN LET x == AndW(f.qf_table[tabpos + 1], LowMaskWord(spillbits, ub))
             IN  OrW(elt, ShlW(x, f.qf_elem_bits - spillbits))
        ELSE elt

\* set_elem, the element as a word.
set_elem_word(f, idx, elt0, ub) ==
    LET bitpos    == f.qf_elem_bits * idx
        tabpos    == bitpos \div WordBits
        slotpos   == bitpos % WordBits
        spillbits == (slotpos + f.qf_elem_bits) - WordBits
        elt       == AndW(elt0, f.qf_elem_mask)
        w0        == OrW(AndW(f.qf_table[tabpos],
                              NotW(ShlW(f.qf_elem_mask, slotpos))),
                         ShlW(elt, slotpos))
        t0        == [f.qf_table EXCEPT ![tabpos] = w0]
    IN  IF spillbits > 0
        THEN LET w1 == OrW(AndW(t0[tabpos + 1],
                                NotW(LowMaskWord(spillbits, ub))),
                           ShrW(elt, f.qf_elem_bits - spillbits))
             IN  [f EXCEPT !.qf_table = [t0 EXCEPT ![tabpos + 1] = w1]]
        ELSE [f EXCEPT !.qf_table = t0]

\* (q, r) of the filters: one word, a slot across two words (2, 14), and
\* elements of 32 and 33 bits.
CodecParams == {<<1, 1>>, <<2, 14>>, <<1, 29>>, <<1, 30>>}

\* The values stored: no bit, every bit, every other bit.
CodecValues ==
    {{}, WordPositions, {b \in WordPositions : b % 2 = 0}}

InitCodec ==
    /\ \E qr \in CodecParams, ub \in ShiftUB :
          qf = qf_init_codec(qr[1], qr[2], ub)
    /\ keys = {}
    /\ last = NoCall
    /\ status = "ok"
    /\ phase = "codec"
    /\ qfi = UninitIter(0)
    /\ yielded = <<>>
    /\ scanned = 0
    /\ qf2 = NoFilter
    /\ qfout = NoFilter
    /\ table_ptr = "live"

\* set_elem(qf, idx, v).
SetElem(idx, v, ub) ==
    /\ phase = "codec"
    /\ qf' = set_elem_word(qf, idx, v, ub)
    /\ last' = [op |-> "set_elem", hash |-> idx, ret |-> TRUE]
    /\ UNCHANGED <<table_ptr, keys, status, phase, iter_vars, merge_vars>>

NextCodec ==
    \E idx \in Slots(qf), v \in CodecValues, ub \in ShiftUB :
        SetElem(idx, v, ub)

SpecCodec == InitCodec /\ [][NextCodec]_vars

\* C27: slot codec round trip.  For every slot index i and every 64-bit
\* value v, get_elem(i) after set_elem(i, v) returns v masked to its low
\* r + 3 bits, and get_elem(j) is unchanged for every other slot j, also
\* when slot i lies across two 64-bit words.
C27_SlotCodecRoundTrip ==
    [][\A idx \in Slots(qf), v \in CodecValues, ub \in ShiftUB :
          SetElem(idx, v, ub) =>
              \A ub2 \in ShiftUB :
                  /\ get_elem_word(qf', idx, ub2)
                         = v \cap (0 .. (qf.qf_elem_bits - 1))
                  /\ \A j \in Slots(qf) \ {idx} :
                         get_elem_word(qf', j, ub2) = get_elem_word(qf, j, ub2)]_vars

\* The table words get_elem and set_elem touch for slot idx: the word of
\* the slot's first bit, and the next one when the slot spills into it.
WordsAccessed(f, idx) ==
    LET bitpos    == f.qf_elem_bits * idx
        tabpos    == bitpos \div WordBits
        slotpos   == bitpos % WordBits
        spillbits == (slotpos + f.qf_elem_bits) - WordBits
    IN  IF spillbits > 0 THEN {tabpos, tabpos + 1} ELSE {tabpos}

\* Word w of qf_table, 8 bytes, lies inside the calloc'ed buffer.
InsideBuffer(f, w) ==
    (WordBits \div 8) * (w + 1) <= qf_table_size(f.qf_qbits, f.qf_rbits)

\* C28: every 64-bit word get_elem or set_elem reads or writes for a slot
\* index in 0..2^q-1 lies entirely inside the buffer of qf_table_size(q, r)
\* bytes; here for the slot qf_insert reads first, get_elem(qf, fq), when the
\* filter is not full.
C28_SlotAccessInsideBuffer ==
    [][(/\ last'.op = "insert"
        /\ QfInsert(last'.hash)
        /\ qf.qf_entries < qf.qf_max_size)
       => \A w \in WordsAccessed(qf, hash_to_quotient(qf, last'.hash)) :
              InsideBuffer(qf, w)]_vars

\* qf_insert(qf, a); qf_insert(qf, b).
insert_both(f, a, b) ==
    LET first == qf_insert(f, a)
    IN  IF first.hang THEN first ELSE qf_insert(first.qf, b)

\* C29: insertion order does not matter.  In every reachable state with
\* room for two more entries, qf_insert(a) followed by qf_insert(b) leaves
\* the same entries count and the same table contents as qf_insert(b)
\* followed by qf_insert(a), for any two hashes a and b.
C29_InsertOrderIndependent ==
    status = "ok" =>
        \A a \in Hashes(qf), b \in Hashes(qf) :
            LET ab == insert_both(qf, a, b)
                ba == insert_both(qf, b, a)
            IN  (/\ qf.qf_entries + 2 <= qf.qf_max_size
                 /\ ~ab.hang
                 /\ ~ba.hang)
                => /\ ab.qf.qf_entries = ba.qf.qf_entries
                   /\ ab.qf.qf_table = ba.qf.qf_table

====
